---- MODULE Spec2Model ----
(***************************************************************************)
(* The session-scoped HTTP client layer of AgriGPT's frontend:             *)
(*   src/frontend-main/src/api/client.ts          the Request Gateway      *)
(*     (apiClient and its request / response interceptors)                 *)
(*   src/frontend-main/src/components/WeatherHeader.tsx, lines 136-209     *)
(*     getSessionId, buildFormData, postFormData, askText, askImage,       *)
(*     askChat                                                             *)
(*                                                                         *)
(* A call slot c is one invocation of an ask operation (or of apiClient    *)
(* directly), from the call to the moment its promise has settled and the  *)
(* caller has taken the result.  JavaScript runs each invocation to its    *)
(* first await without interruption inside one tab; localStorage is shared *)
(* by all tabs of the profile, so another tab can run between the getItem  *)
(* and the setItem of getSessionId.  That is the only place where an       *)
(* invocation is split in two steps.                                       *)
(***************************************************************************)
EXTENDS Naturals, Sequences, FiniteSets, TLC

\* ---------------------------------------------------------------- bounds
MaxCalls == 2          \* call slots: invocations that can be active at once
MaxLen == 3            \* longest query string
TicksPerTimeout == 2   \* clock steps that make up the gateway timeout

\* ------------------------------------------------------ program constants
timeout == 60000
SESSION_KEY == "agrigpt_session_id"
NoSid == 0             \* localStorage.getItem's null; identifiers are 1, 2, ..

Calls == 1 .. MaxCalls
Quantum == timeout \div TicksPerTimeout

\* ------------------------------------------------------ JavaScript values
Undefined == [t |-> "undefined"]
Null == [t |-> "null"]
Str(s) == [t |-> "string", v |-> s]
Num(n) == [t |-> "number", n |-> n]
Arr(s) == [t |-> "array", v |-> s]

\* ToBoolean, as || and if apply it
Truthy(j) ==
  CASE j.t = "undefined" -> FALSE
    [] j.t = "null" -> FALSE
    [] j.t = "string" -> j.v # ""
    [] j.t = "number" -> j.n # 0
    [] OTHER -> TRUE

\* a || b
Or(a, b) == IF Truthy(a) THEN a ELSE b

\* ---------------------------------------------------------------- strings
Chars == {" ", "h"}
IsSpace(ch) == ch = " "

Strings(n) == UNION {[1 .. k -> Chars] : k \in 0 .. n}

RECURSIVE TrimStart(_)
TrimStart(s) ==
  IF s # <<>> /\ IsSpace(Head(s)) THEN TrimStart(Tail(s)) ELSE s

RECURSIVE TrimEnd(_)
TrimEnd(s) ==
  IF s # <<>> /\ IsSpace(s[Len(s)])
    THEN TrimEnd(SubSeq(s, 1, Len(s) - 1))
    ELSE s

\* mutant: only leading whitespace is stripped
Trim_startOnly(s) == TrimStart(s)

\* String.prototype.trim
Trim(s) == TrimEnd(TrimStart(s))

\* --------------------------------------------------------- FormData values
TextVal(s) == [t |-> "text", chars |-> s]
FileVal(f) == [t |-> "File", name |-> f]

Files == {"leaf.png"}
Queries == Strings(MaxLen)
Images == {Undefined} \cup {FileVal(f) : f \in Files}

\* ------------------------------------------------------------------ state
VARIABLES
  localStorage,  \* [key -> NoSid or an identifier]: the profile's storage
  nwrites,       \* how many times setItem(SESSION_KEY, ..) has run
  raced,         \* TRUE once two first calls were between getItem and setItem
  returned,      \* every value getSessionId has returned so far
  pc,            \* per call: "idle", "gen", "inflight", "resolved", "rejected"
  call,          \* per call: the operation and its arguments
  sid,           \* per call: what getSessionId returned to it
  wrote,         \* per call: its getSessionId ran setItem
  req,           \* per call: the request config as it left the interceptor
  nposts,        \* per call: how many POSTs it has caused
  age,           \* per call: milliseconds in flight
  order,         \* the active calls, in the order they were submitted
  raw,           \* per call: what the transport handed the interceptors
  out,           \* per call: what the caller's promise settled with
  nsettled       \* per call: how many times its promise settled

vars == <<localStorage, nwrites, raced, returned, pc, call, sid, wrote, req,
          nposts, age, order, raw, out, nsettled>>

NoCall == [op |-> "none"]
NoReq == [method |-> "none"]
NoRaw == [kind |-> "none"]
NoOut == [kind |-> "pending"]

Init ==
  /\ localStorage = [k \in {SESSION_KEY} |-> NoSid]
  /\ nwrites = 0
  /\ raced = FALSE
  /\ returned = {}
  /\ pc = [c \in Calls |-> "idle"]
  /\ call = [c \in Calls |-> NoCall]
  /\ sid = [c \in Calls |-> NoSid]
  /\ wrote = [c \in Calls |-> FALSE]
  /\ req = [c \in Calls |-> NoReq]
  /\ nposts = [c \in Calls |-> 0]
  /\ age = [c \in Calls |-> 0]
  /\ order = <<>>
  /\ raw = [c \in Calls |-> NoRaw]
  /\ out = [c \in Calls |-> NoOut]
  /\ nsettled = [c \in Calls |-> 0]

\* ------------------------------------------------- Session Identity Store
\* localStorage.getItem(key)
getItem(k) == localStorage[k]

\* mutant: the generated identifier is returned but never stored
setItem_dropped(k, v) == localStorage

\* localStorage.setItem(key, value): the storage afterwards
setItem(k, v) == [localStorage EXCEPT ![k] = v]

\* mutant: the stored identifier is ignored, every call generates one
NeedsNewSid_always(s) == TRUE

\* `if (!sid)`: the key is absent
NeedsNewSid(s) == s = NoSid

\* crypto.randomUUID(), or the timestamp + random fallback: an identifier no
\* earlier call generated (the k-th identifier generated is k)
randomUUID == nwrites + 1

\* ------------------------------------------------------- Request Builders
SidVal(s) == [t |-> "sid", id |-> s]
Entry(n, v) == [name |-> n, value |-> v]

\* FormData.append for every entry whose value is neither undefined nor null,
\* after the session_id entry
buildFormData(s, payload) ==
  <<Entry("session_id", SidVal(s))>>
    \o SelectSeq(payload, LAMBDA e : e.value.t \notin {"undefined", "null"})

\* the object each operation hands to buildFormData, as Object.entries lists it
PayloadOf(cl) ==
  CASE cl.op = "askText" -> <<Entry("query", TextVal(Trim(cl.query)))>>
    [] cl.op = "askImage" -> <<Entry("file", cl.image)>>
    [] cl.op = "askChat" ->
         <<Entry("query", TextVal(Trim(cl.query)))>>
           \o (IF Truthy(cl.image) THEN <<Entry("file", cl.image)>> ELSE <<>>)

\* the path each operation posts to
UrlOf(cl) ==
  CASE cl.op = "askText" -> "/ask/text"
    [] cl.op = "askImage" -> "/ask/image"
    [] cl.op = "askChat" -> "/ask/chat"

FormData(entries) == [kind |-> "FormData", entries |-> entries]
JsonBody == [kind |-> "json"]

\* the config postFormData gives apiClient.post
postFormData(url, formData) ==
  [method |-> "post", url |-> url, data |-> FormData(formData),
   headers |-> [k \in {"Content-Type"} |-> "multipart/form-data"]]

\* -------------------------------------------------------- Request Gateway
\* `delete headers[key]`: removes the property of exactly that name
DeleteKey(h, key) == [k \in DOMAIN h \ {key} |-> h[k]]

\* the outbound interceptor
requestInterceptor(config) ==
  IF config.data.kind = "FormData"
    THEN [config EXCEPT !.headers = DeleteKey(@, "Content-Type")]
    ELSE config

\* mutant: the success interceptor unwraps the body itself
onFulfilled_unwrap(response) == response.data

\* the inbound interceptor, success path
onFulfilled(response) == response

\* mutant: the server's detail is ignored
onRejected_noDetail(error) ==
  [status |->
     Or(IF error.response = Undefined
          THEN Undefined
          ELSE Num(error.response.status),
        Num(500)),
   message |-> Or(Str(error.message), Str("Unknown API error"))]

\* the inbound interceptor, failure path: the value it rejects with
onRejected(error) ==
  [status |->
     Or(IF error.response = Undefined
          THEN Undefined
          ELSE Num(error.response.status),
        Num(500)),
   message |->
     Or(IF error.response = Undefined
            \/ error.response.data.t # "object"
            \/ "detail" \notin DOMAIN error.response.data
          THEN Undefined
          ELSE error.response.data.detail,
        Or(Str(error.message), Str("Unknown API error")))]

\* the transport hands the request over: one POST leaves
Send(c, config) ==
  /\ req' = [req EXCEPT ![c] = config]
  /\ nposts' = [nposts EXCEPT ![c] = @ + 1]
  /\ pc' = [pc EXCEPT ![c] = "inflight"]
  /\ age' = [age EXCEPT ![c] = 0]
  /\ order' = Append(order, c)
  /\ UNCHANGED <<raw, out, nsettled>>

\* getSessionId returned s to call c: the payload is built and posted
Submit(c, cl, s) ==
  /\ returned' = returned \cup {s}
  /\ sid' = [sid EXCEPT ![c] = s]
  /\ Send(c, requestInterceptor(postFormData(UrlOf(cl),
                                             buildFormData(s, PayloadOf(cl)))))

\* an ask operation from its call to the first await: getSessionId reads the
\* key; when it is present the request leaves in the same step
Enter(c, cl) ==
  /\ pc[c] = "idle"
  /\ call' = [call EXCEPT ![c] = cl]
  /\ IF NeedsNewSid(getItem(SESSION_KEY))
       THEN /\ pc' = [pc EXCEPT ![c] = "gen"]
            /\ raced' = (raced \/ \E d \in Calls \ {c} : pc[d] = "gen")
            /\ UNCHANGED <<localStorage, nwrites, returned, sid, wrote, req,
                           nposts, age, order, raw, out, nsettled>>
       ELSE /\ Submit(c, cl, getItem(SESSION_KEY))
            /\ UNCHANGED <<localStorage, nwrites, raced, wrote>>

askText(c, query) ==
  Enter(c, [op |-> "askText", query |-> query, image |-> Undefined])

askImage(c, image) ==
  Enter(c, [op |-> "askImage", query |-> <<>>, image |-> image])

askChat(c, query, image) ==
  Enter(c, [op |-> "askChat", query |-> query, image |-> image])

\* the rest of getSessionId for a call that read the key as absent: generate,
\* setItem, return; then the payload is built and posted
persistSid(c) ==
  /\ pc[c] = "gen"
  /\ localStorage' = setItem(SESSION_KEY, randomUUID)
  /\ nwrites' = nwrites + 1
  /\ wrote' = [wrote EXCEPT ![c] = TRUE]
  /\ Submit(c, call[c], randomUUID)
  /\ UNCHANGED <<raced, call>>

\* header names are case-insensitive on the wire
Lower(k) ==
  CASE k \in {"Content-Type", "content-type", "CONTENT-TYPE"} -> "content-type"
    [] k = "Accept" -> "accept"

\* the headers as the transport hands them to the interceptor: src/ does not
\* pin the transport's header container, which either keeps the caller's
\* spelling of each name (a plain object) or stores a content-type header
\* under the name "Content-Type" whatever the caller's spelling
Spell(k, canonical) ==
  IF canonical /\ Lower(k) = "content-type" THEN "Content-Type" ELSE k

ConfigHeaders(headers, canonical) ==
  [k \in {Spell(j, canonical) : j \in DOMAIN headers} |->
     headers[CHOOSE j \in DOMAIN headers : Spell(j, canonical) = k]]

\* apiClient.post used directly by another caller, with its own headers
apiPost(c, url, data, headers, canonical) ==
  /\ pc[c] = "idle"
  /\ call' = [call EXCEPT ![c] = [op |-> "post"]]
  /\ Send(c, requestInterceptor([method |-> "post", url |-> url, data |-> data,
                                 headers |-> ConfigHeaders(headers, canonical)]))
  /\ UNCHANGED <<localStorage, nwrites, raced, returned, sid, wrote>>

\* ----------------------------------------------------- settling a request
\* obj.field, undefined when the object has no such property
Get(obj, field) == IF field \in DOMAIN obj THEN obj[field] ELSE Undefined

\* the transport got a 2xx response: the success interceptor runs and
\* postFormData returns res.data
settleResolved(c, response) ==
  /\ raw' = [raw EXCEPT ![c] = [kind |-> "response", response |-> response]]
  /\ out' = [out EXCEPT ![c] =
               [kind |-> "resolved", value |-> Get(onFulfilled(response), "data")]]
  /\ pc' = [pc EXCEPT ![c] = "resolved"]
  /\ nsettled' = [nsettled EXCEPT ![c] = @ + 1]
  /\ age' = [age EXCEPT ![c] = 0]
  /\ UNCHANGED <<localStorage, nwrites, raced, returned, call, sid, wrote,
                 req, nposts, order>>

\* mutant: the failure interceptor submits the request again
settleRejected_retry(c, error) ==
  /\ raw' = [raw EXCEPT ![c] = [kind |-> "error", error |-> error]]
  /\ nposts' = [nposts EXCEPT ![c] = @ + 1]
  /\ age' = [age EXCEPT ![c] = 0]
  /\ UNCHANGED <<localStorage, nwrites, raced, returned, pc, call, sid, wrote,
                 req, order, out, nsettled>>

\* the transport failed with an AxiosError: the failure interceptor runs and
\* its rejection passes through postFormData to the caller
settleRejected(c, error) ==
  /\ raw' = [raw EXCEPT ![c] = [kind |-> "error", error |-> error]]
  /\ out' = [out EXCEPT ![c] = [kind |-> "rejected", value |-> onRejected(error)]]
  /\ pc' = [pc EXCEPT ![c] = "rejected"]
  /\ nsettled' = [nsettled EXCEPT ![c] = @ + 1]
  /\ age' = [age EXCEPT ![c] = 0]
  /\ UNCHANGED <<localStorage, nwrites, raced, returned, call, sid, wrote,
                 req, nposts, order>>

\* what the backend can answer
Envelopes ==
  {[analysis |-> "ok", request_id |-> "r1"], [analysis |-> "Leaf blight"]}
Details == {Str("bad image"), Str(""), Arr("validation errors"), Null}
ErrorBodies ==
  {Str(""), [t |-> "object"]} \cup {[t |-> "object", detail |-> d] : d \in Details}
ErrorStatuses == {422, 503}
Descriptions == {"Network Error", ""}

\* the description axios gives a non-2xx response
StatusMessage(status) ==
  CASE status = 422 -> "Request failed with status code 422"
    [] status = 503 -> "Request failed with status code 503"

respondOk(c, body) ==
  /\ pc[c] = "inflight"
  /\ settleResolved(c, [status |-> 200, data |-> body])

respondError(c, status, body) ==
  /\ pc[c] = "inflight"
  /\ settleRejected(c, [message |-> StatusMessage(status),
                        response |-> [status |-> status, data |-> body]])

\* no response reached the client (connection failure, aborted request)
transportFails(c, description) ==
  /\ pc[c] = "inflight"
  /\ settleRejected(c, [message |-> description, response |-> Undefined])

\* ------------------------------------------------------------------- time
\* time passes for every request in flight; none is carried past its timeout
Tick ==
  /\ \E c \in Calls : pc[c] = "inflight"
  /\ \A c \in Calls : pc[c] = "inflight" => age[c] + Quantum <= timeout
  /\ age' = [c \in Calls |->
               IF pc[c] = "inflight" THEN age[c] + Quantum ELSE age[c]]
  /\ UNCHANGED <<localStorage, nwrites, raced, returned, pc, call, sid, wrote,
                 req, nposts, order, raw, out, nsettled>>

\* mutant: the gateway is created without a timeout
TimedOut_never(c) == FALSE

\* axios.create({timeout}): the request has been in flight that long
TimedOut(c) == age[c] >= timeout

timeoutFires(c) ==
  /\ pc[c] = "inflight"
  /\ TimedOut(c)
  /\ settleRejected(c, [message |-> "timeout of 60000ms exceeded",
                        response |-> Undefined])

\* the caller has taken the settled result: the slot is free for a new call
take(c) ==
  /\ pc[c] \in {"resolved", "rejected"}
  /\ pc' = [pc EXCEPT ![c] = "idle"]
  /\ call' = [call EXCEPT ![c] = NoCall]
  /\ sid' = [sid EXCEPT ![c] = NoSid]
  /\ wrote' = [wrote EXCEPT ![c] = FALSE]
  /\ req' = [req EXCEPT ![c] = NoReq]
  /\ nposts' = [nposts EXCEPT ![c] = 0]
  /\ raw' = [raw EXCEPT ![c] = NoRaw]
  /\ out' = [out EXCEPT ![c] = NoOut]
  /\ nsettled' = [nsettled EXCEPT ![c] = 0]
  /\ order' = SelectSeq(order, LAMBDA d : d # c)
  /\ UNCHANGED <<localStorage, nwrites, raced, returned, age>>

\* --------------------------------------------------------- specifications
\* headers and bodies another caller of apiClient may pre-set
HeaderChoices ==
  {[k \in {"Accept"} |-> "application/json"],
   [k \in {"Content-Type", "Accept"} |->
      IF k = "Accept" THEN "application/json" ELSE "multipart/form-data"],
   [k \in {"content-type"} |-> "multipart/form-data"],
   [k \in {"CONTENT-TYPE"} |-> "application/json"]}
BodyChoices == {FormData(<<Entry("file", FileVal("leaf.png"))>>), JsonBody}

\* no other call is active: the caller awaits each call before the next
Quiet(c) == \A d \in Calls \ {c} : pc[d] = "idle"

\* one caller, one call after the other, every input
Next ==
  \/ \E c \in Calls, q \in Queries : Quiet(c) /\ askText(c, q)
  \/ \E c \in Calls, f \in Files : Quiet(c) /\ askImage(c, FileVal(f))
  \/ \E c \in Calls, q \in Queries, i \in Images : Quiet(c) /\ askChat(c, q, i)
  \/ \E c \in Calls, d \in BodyChoices, h \in HeaderChoices, k \in BOOLEAN :
       Quiet(c) /\ apiPost(c, "/ask/image", d, h, k)
  \/ \E c \in Calls : persistSid(c)
  \/ \E c \in Calls, b \in Envelopes : respondOk(c, b)
  \/ \E c \in Calls, st \in ErrorStatuses, b \in ErrorBodies :
       respondError(c, st, b)
  \/ \E c \in Calls, m \in Descriptions : transportFails(c, m)
  \/ \E c \in Calls : timeoutFires(c)
  \/ \E c \in Calls : take(c)
  \/ Tick

Spec == Init /\ [][Next]_vars

\* several tabs of one profile, calls interleaved and in flight together
TabQuery == <<" ", "h">>

NextTabs ==
  \/ \E c \in Calls : askText(c, TabQuery)
  \/ \E c \in Calls, f \in Files : askImage(c, FileVal(f))
  \/ \E c \in Calls : persistSid(c)
  \/ \E c \in Calls : respondOk(c, [analysis |-> "ok", request_id |-> "r1"])
  \/ \E c \in Calls : respondError(c, 503, Str(""))
  \/ \E c \in Calls : timeoutFires(c)
  \/ \E c \in Calls : take(c)
  \/ Tick

TabSpec == Init /\ [][NextTabs]_vars

\* a profile that has visited before: its identifier is already stored
InitVisited ==
  /\ localStorage = [k \in {SESSION_KEY} |-> 1]
  /\ nwrites = 1
  /\ raced = FALSE
  /\ returned = {}
  /\ pc = [c \in Calls |-> "idle"]
  /\ call = [c \in Calls |-> NoCall]
  /\ sid = [c \in Calls |-> NoSid]
  /\ wrote = [c \in Calls |-> FALSE]
  /\ req = [c \in Calls |-> NoReq]
  /\ nposts = [c \in Calls |-> 0]
  /\ age = [c \in Calls |-> 0]
  /\ order = <<>>
  /\ raw = [c \in Calls |-> NoRaw]
  /\ out = [c \in Calls |-> NoOut]
  /\ nsettled = [c \in Calls |-> 0]

\* requests in flight together, under the clock
NextFlight ==
  \/ \E c \in Calls : askText(c, TabQuery)
  \/ \E c \in Calls, f \in Files : askImage(c, FileVal(f))
  \/ \E c \in Calls : respondOk(c, [analysis |-> "ok", request_id |-> "r1"])
  \/ \E c \in Calls : respondError(c, 503, Str(""))
  \/ \E c \in Calls : timeoutFires(c)
  \/ \E c \in Calls : take(c)
  \/ Tick

\* the clock advances and the transport's timer fires when it is due; the
\* backend is not obliged to answer
Fairness == WF_vars(Tick) /\ \A c \in Calls : WF_vars(timeoutFires(c))

FairSpec == InitVisited /\ [][NextFlight]_vars /\ Fairness

\* ------------------------------------------------------------- the claims
AskOps == {"askText", "askImage", "askChat"}
Submitted(c) == pc[c] \in {"inflight", "resolved", "rejected"}
IsAsk(c) == Submitted(c) /\ call[c].op \in AskOps
Stored == localStorage[SESSION_KEY]

\* the session_id values a request's multipart body carries
SessionIds(r) ==
  {r.data.entries[i].value.id :
     i \in {j \in 1 .. Len(r.data.entries) :
              r.data.entries[j].name = "session_id"}}

\* C1: calls made one after the other on a storage nobody clears all get the
\* same identifier from getSessionId: at most one value is ever returned, it is
\* the value stored under 'agrigpt_session_id', and every call holds it.
C1_SameSessionId ==
  /\ Cardinality(returned) <= 1
  /\ returned # {} => returned = {Stored}
  /\ \A c \in Calls : sid[c] # NoSid => sid[c] = Stored

\* a later call got the stored identifier without writing
C1_Witness ==
  \E c \in Calls :
    /\ IsAsk(c) /\ ~wrote[c]
    /\ nwrites = 1 /\ sid[c] = Stored /\ Stored # NoSid

\* a call that leaves "gen" has written its own identifier
C8_WriteStoresOwnId ==
  \A c \in Calls :
    (pc[c] = "gen" /\ pc'[c] # "gen") =>
      (localStorage'[SESSION_KEY] = sid'[c] /\ sid'[c] # NoSid)

\* first calls have interleaved and none is still to write
C8_AfterTheWrites ==
  raced /\ Stored # NoSid /\ \A d \in Calls : pc[d] # "gen"

\* nothing is written and a starting ask call gets the stored identifier
C8_Stable ==
  /\ localStorage' = localStorage
  /\ nwrites' = nwrites
  /\ \A c \in Calls :
       (pc[c] = "idle" /\ pc'[c] # "idle" /\ call'[c].op \in AskOps) =>
         (sid'[c] = Stored /\ ~wrote'[c])

\* C8: when first calls have interleaved (each read the key as absent), every
\* write stores the writer's own identifier, so the last write is what is
\* stored; and once no write is pending, a call that starts returns the stored
\* value and the stored value is not written again.
C8_LastWriteWins ==
  [][C8_WriteStoresOwnId /\ (C8_AfterTheWrites => C8_Stable)]_vars

\* two first calls raced and both wrote; a call started later holds the
\* identifier of the last write
C8_Witness ==
  /\ raced /\ nwrites = 2 /\ Stored = 2
  /\ \A d \in Calls : pc[d] # "gen"
  /\ \E c \in Calls : IsAsk(c) /\ ~wrote[c] /\ sid[c] = 2

\* C9 as stated: every submitted ask request carries the stored identifier,
\* and the identifier is written at most once.
C9_Original ==
  /\ nwrites <= 1
  /\ \A c \in Calls : IsAsk(c) => SessionIds(req[c]) = {Stored}

\* C9 amended: every ask request carries the identifier its own getSessionId
\* call returned; as long as no two first calls have interleaved, the
\* identifier has been written at most once and every submitted request
\* carries the stored one.
C9_Amended ==
  /\ \A c \in Calls : IsAsk(c) => SessionIds(req[c]) = {sid[c]} /\ sid[c] # NoSid
  /\ ~raced =>
       /\ nwrites <= 1
       /\ \A c \in Calls : IsAsk(c) => SessionIds(req[c]) = {Stored}

\* two requests of different calls, no race: both carry the stored identifier
C9_Witness ==
  /\ ~raced /\ nwrites = 1
  /\ \E c, d \in Calls :
       /\ c # d /\ IsAsk(c) /\ IsAsk(d)
       /\ wrote[c] /\ ~wrote[d]
       /\ SessionIds(req[c]) = {Stored} /\ SessionIds(req[d]) = {Stored}

\* the value of the field `name` of a request's multipart body
FieldNames(r) == {r.data.entries[i].name : i \in 1 .. Len(r.data.entries)}
Field(r, name) ==
  r.data.entries[CHOOSE i \in 1 .. Len(r.data.entries) :
                   r.data.entries[i].name = name].value
NoDuplicates(r) == Len(r.data.entries) = Cardinality(FieldNames(r))

AllSpaces(s) == \A i \in 1 .. Len(s) : IsSpace(s[i])

\* r is q without its leading and trailing whitespace
IsTrimOf(r, q) ==
  /\ r = <<>> \/ (~IsSpace(r[1]) /\ ~IsSpace(r[Len(r)]))
  /\ \E i, j \in 0 .. Len(q) :
       /\ i + j <= Len(q)
       /\ AllSpaces(SubSeq(q, 1, i))
       /\ AllSpaces(SubSeq(q, Len(q) - j + 1, Len(q)))
       /\ r = SubSeq(q, i + 1, Len(q) - j)

C5_Fields(c) ==
  CASE call[c].op = "askText" -> {"session_id", "query"}
    [] call[c].op = "askImage" -> {"session_id", "file"}
    [] call[c].op = "askChat" ->
         IF call[c].image = Undefined
           THEN {"session_id", "query"}
           ELSE {"session_id", "query", "file"}

\* C5: the multipart body an ask operation submits holds session_id and
\* exactly the operation's present fields, each once: query is the trimmed
\* argument, file is the image given, session_id is the caller's identifier;
\* askChat without an image submits no file field.
C5_PayloadComposition ==
  \A c \in Calls :
    IsAsk(c) =>
      /\ req[c].data.kind = "FormData"
      /\ FieldNames(req[c]) = C5_Fields(c)
      /\ NoDuplicates(req[c])
      /\ Field(req[c], "session_id") = SidVal(sid[c]) /\ sid[c] # NoSid
      /\ "query" \in FieldNames(req[c]) =>
           /\ Field(req[c], "query").t = "text"
           /\ IsTrimOf(Field(req[c], "query").chars, call[c].query)
      /\ "file" \in FieldNames(req[c]) =>
           /\ Field(req[c], "file") = call[c].image
           /\ call[c].image.t = "File"

\* askChat(" h ") without an image: query "h", no file
C5_Witness ==
  \E c \in Calls :
    /\ IsAsk(c) /\ call[c].op = "askChat"
    /\ call[c].query = <<" ", "h", " ">> /\ call[c].image = Undefined
    /\ FieldNames(req[c]) = {"session_id", "query"}
    /\ Field(req[c], "query") = TextVal(<<"h">>)

C7_Path(op) ==
  CASE op = "askText" -> "/ask/text"
    [] op = "askImage" -> "/ask/image"
    [] op = "askChat" -> "/ask/chat"

\* C7: an ask invocation causes exactly one POST, to its operation's path; a
\* query of whitespace only is submitted as the empty string; a rejected
\* request has still been posted once only.
C7_ExactlyOnePost ==
  \A c \in Calls :
    /\ pc[c] \in {"idle", "gen"} => nposts[c] = 0
    /\ IsAsk(c) =>
         /\ nposts[c] = 1
         /\ req[c].method = "post"
         /\ req[c].url = C7_Path(call[c].op)
         /\ (call[c].op # "askImage" /\ AllSpaces(call[c].query)) =>
              Field(req[c], "query") = TextVal(<<>>)

\* a whitespace-only text ask was posted once and rejected
C7_Witness ==
  \E c \in Calls :
    /\ pc[c] = "rejected" /\ call[c].op = "askText"
    /\ call[c].query = <<" ", " ">>
    /\ nposts[c] = 1 /\ req[c].url = "/ask/text"
    /\ Field(req[c], "query") = TextVal(<<>>)

\* C6: a resolved call hands its caller the body of the server's response,
\* unchanged.
C6_RoundTrip ==
  \A c \in Calls :
    pc[c] = "resolved" =>
      /\ out[c].kind = "resolved"
      /\ raw[c].kind = "response"
      /\ out[c].value = raw[c].response.data

\* askText answered {analysis: "ok", request_id: "r1"}
C6_Witness ==
  \E c \in Calls :
    /\ pc[c] = "resolved" /\ call[c].op = "askText"
    /\ raw[c].response.data = [analysis |-> "ok", request_id |-> "r1"]
    /\ out[c].value = [analysis |-> "ok", request_id |-> "r1"]

\* C2 as stated: a settled ask call observes either a Response Envelope or a
\* Normalized Error {status: integer, message: string}, nothing else.
C2_OnlyNormalizedShape ==
  \A c \in Calls :
    /\ (IsAsk(c) /\ pc[c] = "resolved") =>
         (out[c].kind = "resolved" /\ out[c].value \in Envelopes)
    /\ (IsAsk(c) /\ pc[c] = "rejected") =>
         /\ out[c].kind = "rejected"
         /\ DOMAIN out[c].value = {"status", "message"}
         /\ out[c].value.status.t = "number"
         /\ out[c].value.message.t = "string"

C3_HasResponse(e) == e.response # Undefined
\* the body is an object with a detail that is not null
C3_CarriesDetail(e) ==
  /\ C3_HasResponse(e)
  /\ e.response.data.t = "object"
  /\ "detail" \in DOMAIN e.response.data
  /\ e.response.data.detail.t # "null"
C3_Status(e) == IF C3_HasResponse(e) THEN Num(e.response.status) ELSE Num(500)
C3_Description(e) ==
  IF e.message # "" THEN Str(e.message) ELSE Str("Unknown API error")

\* a detail that JavaScript's || keeps: not the empty string
C3_UsableDetail(e) ==
  /\ C3_CarriesDetail(e)
  /\ e.response.data.detail.t = "string" => e.response.data.detail.v # ""

\* C3 as stated: status is the response's status, else 500; message is the
\* body's detail whenever the body carries one, else the failure's
\* description, else "Unknown API error".
C3_Original ==
  \A c \in Calls :
    pc[c] = "rejected" =>
      /\ out[c].value.status = C3_Status(raw[c].error)
      /\ out[c].value.message =
           IF C3_CarriesDetail(raw[c].error)
             THEN raw[c].error.response.data.detail
             ELSE C3_Description(raw[c].error)

\* C3 amended: status is the response's status, else 500; message is the
\* body's detail whenever the body carries one that is not the empty string
\* (nor another value JavaScript counts as false), else the failure's description when that is not empty, else
\* "Unknown API error".
C3_Amended ==
  \A c \in Calls :
    pc[c] = "rejected" =>
      /\ out[c].value.status = C3_Status(raw[c].error)
      /\ out[c].value.message =
           IF C3_UsableDetail(raw[c].error)
             THEN raw[c].error.response.data.detail
             ELSE C3_Description(raw[c].error)

\* a 422 with body {detail: "bad image"} was rejected as {422, "bad image"}
C3_Witness ==
  \E c \in Calls :
    /\ pc[c] = "rejected"
    /\ raw[c].error.response =
         [status |-> 422, data |-> [t |-> "object", detail |-> Str("bad image")]]
    /\ out[c].value = [status |-> Num(422), message |-> Str("bad image")]

\* C4 as stated: a request with a multipart body carries no content-type
\* header, under any spelling, once the outbound interceptor has run.
C4_NoContentType ==
  \A c \in Calls :
    (Submitted(c) /\ req[c].data.kind = "FormData") =>
      \A k \in DOMAIN req[c].headers : Lower(k) # "content-type"

\* C10: with several requests in flight, each settles exactly once, with its
\* own response or its own normalized error, no later than its timeout,
\* whatever the other requests do.
C10_Safety ==
  \A c \in Calls :
    /\ nsettled[c] <= 1
    /\ nsettled[c] = 1 <=> pc[c] \in {"resolved", "rejected"}
    /\ pc[c] = "inflight" => age[c] <= timeout
    /\ pc[c] = "resolved" => out[c].value = raw[c].response.data
    /\ pc[c] = "rejected" =>
         /\ raw[c].kind = "error"
         /\ out[c].value.status =
              IF raw[c].error.response = Undefined
                THEN Num(500)
                ELSE Num(raw[c].error.response.status)

C10_EverySubmittedSettles ==
  /\ []C10_Safety
  /\ \A c \in Calls :
       (pc[c] = "inflight") ~> (pc[c] \in {"resolved", "rejected"})

\* the call submitted second has resolved while the first is still in flight
C10_Witness ==
  /\ Len(order) = 2
  /\ pc[order[1]] = "inflight" /\ age[order[1]] = timeout
  /\ pc[order[2]] = "resolved" /\ nsettled[order[2]] = 1

====
